---------------------------- MODULE Spec2Model ----------------------------
(* assert.h: static and run-time assertion macros for C and C++.            *)
(*                                                                          *)
(* One behaviour is one build of one translation unit followed by one run   *)
(* of the program it produces:                                              *)
(*   - the preprocessor reads assert.h top to bottom and resolves each      *)
(*     #if chain against the macros the toolchain and the caller define;    *)
(*   - the translation unit then invokes STATIC_ASSERT, STATIC_ASSERT_UNIQ  *)
(*     and STATIC_ASSERT_EXPR, each expanded and compiled;                  *)
(*   - if the build succeeded the program runs: program steps interleaved   *)
(*     with ASSERT calls.                                                   *)
EXTENDS Integers, Sequences, FiniteSets

VARIABLES
    defined,    \* macros the toolchain / command line defines (names)
    stdc,       \* value of __STDC_VERSION__, 0 when it is not defined
    caller,     \* what the caller defined ASSERT_TRAP, ASSERT_UNREACHABLE, ASSERT_FAILED as ("" = not)
    macros,     \* macro table of assert.h: name -> replacement list, "" = undefined
    pc,         \* position: "L31","L54","L64","L76" in the header, "tu", "failed", "run", "halted"
    counter,    \* next value of __COUNTER__
    decls,      \* structs declared so far: [scope, tag, macro, id, line]
    last,       \* the last static assertion invocation and what became of it
    nAuto,      \* number of STATIC_ASSERT invocations compiled so far
    nInv,       \* number of static assertion invocations compiled so far
    x,          \* the program's state (advanced by program steps)
    ran,        \* the last ASSERT evaluated at run time and the action it performed
    failed,     \* an ASSERT whose condition was false has been executed
    after       \* program steps executed after the first failed ASSERT

vars == <<defined, stdc, caller, macros, pc, counter, decls, last, nAuto, nInv, x, ran, failed, after>>

----------------------------------------------------------------------------
(* Bounds of the model.                                                     *)

MaxInvocations == 2
MaxSteps == 2

----------------------------------------------------------------------------
(* The build environment.                                                   *)

StdcVersions == {0, 199901, 201112, 202311}

StaticEnvMacros == {"__cpp_static_assert", "static_assert", "__COUNTER__"}
RunEnvMacros == {"__GNUC__", "_MSC_VER", "unreachable", "ASSERT_DEBUG", "DEBUG"}

HeaderMacros == {"STATIC_ASSERT__IMPL", "STATIC_ASSERT_EXPR__IMPL", "ASSERT__UNIQUE",
                 "ASSERT_TRAP", "ASSERT_UNREACHABLE", "ASSERT_FAILED"}

\* Replacement lists a caller may give the three overridable macros before
\* including the header ("" = leaves it to the header).
CallerTrap == {"", "abort()"}
CallerUnreachable == {"", "((void)0)"}
CallerFailed == {"", "ASSERT_TRAP", "ASSERT_UNREACHABLE"}

IsDefined(m) == macros[m] # ""

Define(m, body) == [macros EXCEPT ![m] = body]

----------------------------------------------------------------------------
(* The header's #if chains, as functions of the environment.                *)

\* The chain of lines 31-38 with its #elif branch lost.
StaticAssertTier_NoC11(defs, ver) ==
    IF "__cpp_static_assert" \in defs \/ "static_assert" \in defs
       \/ (ver # 0 /\ ver >= 202311)
    THEN "static_assert"
    ELSE "fallback"

\* lines 31-38: which implementation of the static assertions is compiled in
StaticAssertTier(defs, ver) ==
    IF "__cpp_static_assert" \in defs \/ "static_assert" \in defs
       \/ (ver # 0 /\ ver >= 202311)
    THEN "static_assert"
    ELSE IF ver # 0 /\ ver >= 201112
    THEN "_Static_assert"
    ELSE "fallback"

\* The #ifdef of line 39 written as #ifndef.
UniqueStrategy_Inverted(defs) ==
    IF "__COUNTER__" \in defs THEN "__LINE__" ELSE "__COUNTER__"

\* lines 39-43
UniqueStrategy(defs) ==
    IF "__COUNTER__" \in defs THEN "__COUNTER__" ELSE "__LINE__"

\* The chain of lines 55-61 with its first two branches exchanged.
TrapStrategy_MsvcFirst(defs) ==
    IF "_MSC_VER" \in defs THEN "__debugbreak()"
    ELSE IF "__GNUC__" \in defs THEN "__builtin_trap()"
    ELSE "*(volatile int *)0 = 0"

\* lines 55-61
TrapStrategy(defs) ==
    IF "__GNUC__" \in defs THEN "__builtin_trap()"
    ELSE IF "_MSC_VER" \in defs THEN "__debugbreak()"
    ELSE "*(volatile int *)0 = 0"

\* lines 65-73
UnreachableStrategy(defs) ==
    IF "unreachable" \in defs THEN "unreachable()"
    ELSE IF "__GNUC__" \in defs THEN "__builtin_unreachable()"
    ELSE IF "_MSC_VER" \in defs THEN "__assume(0)"
    ELSE "*(int*)0 = 0"

\* lines 77-81
FailedStrategy(defs) ==
    IF "ASSERT_DEBUG" \in defs \/ "DEBUG" \in defs
    THEN "ASSERT_TRAP"
    ELSE "ASSERT_UNREACHABLE"

----------------------------------------------------------------------------
(* Preprocessing assert.h.                                                  *)

NoExpansion == [form |-> "", cond |-> "", msg |-> "", tag |-> "", size |-> 0]
NoInvocation == [macro |-> "none", id |-> "", cond |-> "", given |-> "", line |-> 0,
                 scope |-> "", pos |-> "", exp |-> NoExpansion, diags |-> {}]
NoAssert == [result |-> "none", action |-> "", outcome |-> ""]

\* The caller's predefinitions of the three macros the header guards with #ifndef.
CallerDefines(t, u, f) ==
    [m \in HeaderMacros |->
        IF m = "ASSERT_TRAP" THEN t
        ELSE IF m = "ASSERT_UNREACHABLE" THEN u
        ELSE IF m = "ASSERT_FAILED" THEN f
        ELSE ""]

Start ==
    /\ pc = "L31"
    /\ counter = 0
    /\ decls = {}
    /\ last = NoInvocation
    /\ nAuto = 0
    /\ nInv = 0
    /\ x = 0
    /\ ran = NoAssert
    /\ failed = FALSE
    /\ after = 0

\* A build of a translation unit that uses the static assertions: every
\* toolchain as far as the static assertions can tell them apart.
Init ==
    /\ defined \in SUBSET StaticEnvMacros
    /\ stdc \in StdcVersions
    /\ caller = [trap |-> "", unreachable |-> "", failed |-> ""]
    /\ macros = CallerDefines("", "", "")
    /\ Start

\* Every toolchain and every set of caller predefinitions.
InitHeader ==
    /\ defined \in SUBSET (StaticEnvMacros \cup RunEnvMacros)
    /\ stdc \in StdcVersions
    /\ \E t \in CallerTrap, u \in CallerUnreachable, f \in CallerFailed :
          /\ caller = [trap |-> t, unreachable |-> u, failed |-> f]
          /\ macros = CallerDefines(t, u, f)
    /\ Start

\* A program that uses ASSERT: every toolchain as far as ASSERT can tell
\* them apart, and every set of caller predefinitions.
InitRun ==
    /\ defined \in SUBSET RunEnvMacros
    /\ stdc \in StdcVersions
    /\ \E t \in CallerTrap, u \in CallerUnreachable, f \in CallerFailed :
          /\ caller = [trap |-> t, unreachable |-> u, failed |-> f]
          /\ macros = CallerDefines(t, u, f)
    /\ Start

\* lines 31-52: the macro table after the first #if chain
StaticAssertImplMacros(table, defs, ver) ==
    LET tier == StaticAssertTier(defs, ver) IN
    IF tier = "fallback"
    THEN [table EXCEPT !["ASSERT__UNIQUE"] = UniqueStrategy(defs),
                       !["STATIC_ASSERT__IMPL"] = "struct bit-field",
                       !["STATIC_ASSERT_EXPR__IMPL"] = "sizeof array"]
    ELSE [table EXCEPT !["STATIC_ASSERT__IMPL"] = tier,
                       !["STATIC_ASSERT_EXPR__IMPL"] = tier]

\* lines 31-52
IncludeStaticAssertImpl ==
    /\ pc = "L31"
    /\ macros' = StaticAssertImplMacros(macros, defined, stdc)
    /\ pc' = "L54"
    /\ UNCHANGED <<defined, stdc, caller, counter, decls, last, nAuto, nInv, x, ran, failed, after>>

\* lines 54-62
IncludeAssertTrap ==
    /\ pc = "L54"
    /\ macros' = IF IsDefined("ASSERT_TRAP") THEN macros
                 ELSE Define("ASSERT_TRAP", TrapStrategy(defined))
    /\ pc' = "L64"
    /\ UNCHANGED <<defined, stdc, caller, counter, decls, last, nAuto, nInv, x, ran, failed, after>>

\* lines 64-74
IncludeAssertUnreachable ==
    /\ pc = "L64"
    /\ macros' = IF IsDefined("ASSERT_UNREACHABLE") THEN macros
                 ELSE Define("ASSERT_UNREACHABLE", UnreachableStrategy(defined))
    /\ pc' = "L76"
    /\ UNCHANGED <<defined, stdc, caller, counter, decls, last, nAuto, nInv, x, ran, failed, after>>

\* lines 76-82
IncludeAssertFailed ==
    /\ pc = "L76"
    /\ macros' = IF IsDefined("ASSERT_FAILED") THEN macros
                 ELSE Define("ASSERT_FAILED", FailedStrategy(defined))
    /\ pc' = "tu"
    /\ UNCHANGED <<defined, stdc, caller, counter, decls, last, nAuto, nInv, x, ran, failed, after>>

----------------------------------------------------------------------------
(* Tokens and macro arguments.                                              *)

\* The conditions a translation unit asserts, as written, and their values.
CondExprs == {"-1", "0", "1", "2"}

Value(e) == CASE e = "-1" -> -1 [] e = "0" -> 0 [] e = "1" -> 1 [] e = "2" -> 2

\* The message a caller may pass (a string literal), or none.
CallerMessages == {"", "\"m\""}

\* Identifiers a caller may give STATIC_ASSERT_UNIQ: any token that ## can
\* paste after static_assertion_, numerals included.
CallerIds == {"a", "b", "0", "1"}

Lines == {1, 2}
Scopes == {"file", "block"}

DigitChars == <<"0", "1", "2", "3", "4", "5", "6", "7", "8", "9">>

\* __COUNTER__ and __LINE__ expand to a decimal integer constant.
RECURSIVE Decimal(_)
Decimal(n) ==
    IF n < 10 THEN DigitChars[n + 1]
    ELSE Decimal(n \div 10) \o DigitChars[(n % 10) + 1]

\* __VA_ARGS__ of an invocation: the condition, then the message if given.
VaArgs(cond, msg) == IF msg = "" THEN <<cond>> ELSE <<cond, msg>>

RECURSIVE Spelling(_)
Spelling(args) ==
    IF Len(args) = 1 THEN args[1]
    ELSE args[1] \o ", " \o Spelling(Tail(args))

\* #__VA_ARGS__: a string literal holding the spelling of the arguments.
\* (The escaping of an inner string literal is left out: a stringification
\* that holds one is only ever bound to the "..." of the __IMPL macros.)
Stringify(text) == "\"" \o text \o "\""

\* A concatenation that loses its second operand.
ASSERT__CONCAT_DropsId(X, Y) == X

\* line 45
ASSERT__CONCAT(X, Y) == X \o Y

\* C's ! operator on an int
LogicalNot(v) == IF v = 0 THEN 1 ELSE 0

\* The width written (int)!(condition).
BitFieldWidth_SingleNegation(v) == LogicalNot(v)

\* line 49: (int)!!(condition)
BitFieldWidth(v) == LogicalNot(LogicalNot(v))

\* line 51: 1 - 2*(int)!(condition)
ArrayLength(v) == 1 - 2 * LogicalNot(v)

\* line 24: the arguments STATIC_ASSERT hands to STATIC_ASSERT__IMPL
STATIC_ASSERT(va) ==
    <<"ASSERT__UNIQUE">> \o va \o <<Stringify(Spelling(va)), "_">>

\* STATIC_ASSERT_UNIQ without the #id ": " in front of its default message.
STATIC_ASSERT_UNIQ_NoPrefix(id, va) ==
    <<id>> \o va \o <<Stringify(Spelling(va)), "_">>

\* line 26
STATIC_ASSERT_UNIQ(id, va) ==
    <<id>> \o va \o <<Stringify(id \o ": " \o Spelling(va)), "_">>

\* line 28
STATIC_ASSERT_EXPR(va) ==
    va \o <<Stringify(Spelling(va)), "_">>

\* The argument pasted as written, without macro expansion.
ExpandId_Unexpanded(id, line) == id

\* lines 40, 42: the argument id, macro-expanded before it is substituted
ExpandId(id, line) ==
    IF id = "ASSERT__UNIQUE"
    THEN IF macros["ASSERT__UNIQUE"] = "__COUNTER__" THEN Decimal(counter)
         ELSE IF macros["ASSERT__UNIQUE"] = "__LINE__" THEN Decimal(line)
         ELSE id
    ELSE id

\* lines 33, 36, 47-49: the expansion of STATIC_ASSERT__IMPL(id, cond, msg, ...)
STATIC_ASSERT__IMPL(args, line) ==
    IF macros["STATIC_ASSERT__IMPL"] = "struct bit-field"
    THEN [form |-> "struct bit-field", cond |-> args[2], msg |-> "",
          tag |-> ASSERT__CONCAT("static_assertion_", ExpandId(args[1], line)),
          size |-> BitFieldWidth(Value(args[2]))]
    ELSE [form |-> macros["STATIC_ASSERT__IMPL"], cond |-> args[2], msg |-> args[3],
          tag |-> "", size |-> 0]

\* lines 34, 37, 50-51: the expansion of STATIC_ASSERT_EXPR__IMPL(cond, msg, ...)
STATIC_ASSERT_EXPR__IMPL(args) ==
    IF macros["STATIC_ASSERT_EXPR__IMPL"] = "sizeof array"
    THEN [form |-> "sizeof array", cond |-> args[1], msg |-> "",
          tag |-> "", size |-> ArrayLength(Value(args[1]))]
    ELSE [form |-> macros["STATIC_ASSERT_EXPR__IMPL"], cond |-> args[1], msg |-> args[2],
          tag |-> "", size |-> 0]

\* What the language makes of an expansion: static_assert and _Static_assert
\* are declarations, a struct definition is a declaration, (void)sizeof(...)
\* is an expression of type void.
Category(form) == IF form = "sizeof array" THEN "void expression" ELSE "declaration"

\* The diagnostics the compiler gives an expansion placed at pos in scope.
Diagnostics(exp, scope, pos) ==
    (IF exp.form \in {"static_assert", "_Static_assert"} /\ Value(exp.cond) = 0
     THEN {"static assertion failed"} ELSE {})
    \cup (IF exp.form = "struct bit-field" /\ exp.size = 0
          THEN {"zero-width bit-field"} ELSE {})
    \cup (IF exp.form = "sizeof array" /\ exp.size < 0
          THEN {"negative array size"} ELSE {})
    \cup (IF exp.form = "struct bit-field"
             /\ \E d \in decls : d.scope = scope /\ d.tag = exp.tag
          THEN {"redefinition"} ELSE {})
    \cup (IF pos = "expression" /\ Category(exp.form) = "declaration"
          THEN {"syntax error"} ELSE {})

\* One static assertion of the translation unit has been expanded and compiled.
Compiled(macro, id, cond, msg, line, scope, pos, exp) ==
    LET diags == Diagnostics(exp, scope, pos) IN
    /\ last' = [macro |-> macro, id |-> id, cond |-> cond, given |-> msg,
                line |-> line, scope |-> scope, pos |-> pos, exp |-> exp,
                diags |-> diags]
    /\ decls' = IF exp.form = "struct bit-field" /\ diags = {}
                THEN decls \cup {[scope |-> scope, tag |-> exp.tag,
                                  macro |-> macro, id |-> id, line |-> line]}
                ELSE decls
    /\ pc' = IF diags = {} THEN "tu" ELSE "failed"
    /\ nInv' = nInv + 1

\* STATIC_ASSERT(cond) or STATIC_ASSERT(cond, msg) at a place where a
\* declaration may stand
StaticAssert ==
    /\ pc = "tu"
    /\ nInv < MaxInvocations
    /\ \E cond \in CondExprs, msg \in CallerMessages, line \in Lines, scope \in Scopes :
         LET args == STATIC_ASSERT(VaArgs(cond, msg))
             exp == STATIC_ASSERT__IMPL(args, line)
         IN  /\ Compiled("STATIC_ASSERT", ExpandId(args[1], line), cond, msg,
                         line, scope, "declaration", exp)
             /\ counter' = IF macros["ASSERT__UNIQUE"] = "__COUNTER__"
                           THEN counter + 1 ELSE counter
    /\ nAuto' = nAuto + 1
    /\ UNCHANGED <<defined, stdc, caller, macros, x, ran, failed, after>>

\* STATIC_ASSERT_UNIQ(id, cond) or STATIC_ASSERT_UNIQ(id, cond, msg)
StaticAssertUniq ==
    /\ pc = "tu"
    /\ nInv < MaxInvocations
    /\ \E id \in CallerIds, cond \in CondExprs, msg \in CallerMessages,
          line \in Lines, scope \in Scopes :
         LET args == STATIC_ASSERT_UNIQ(id, VaArgs(cond, msg))
             exp == STATIC_ASSERT__IMPL(args, line)
         IN  Compiled("STATIC_ASSERT_UNIQ", id, cond, msg, line, scope,
                      "declaration", exp)
    /\ UNCHANGED <<defined, stdc, caller, macros, counter, nAuto, x, ran, failed, after>>

\* STATIC_ASSERT_EXPR(cond) or STATIC_ASSERT_EXPR(cond, msg), as a statement
\* of its own or as an operand of a larger expression
StaticAssertExpr ==
    /\ pc = "tu"
    /\ nInv < MaxInvocations
    /\ \E cond \in CondExprs, msg \in CallerMessages, line \in Lines,
          pos \in {"statement", "expression"} :
         LET args == STATIC_ASSERT_EXPR(VaArgs(cond, msg))
             exp == STATIC_ASSERT_EXPR__IMPL(args)
         IN  Compiled("STATIC_ASSERT_EXPR", "", cond, msg, line, "block", pos, exp)
    /\ UNCHANGED <<defined, stdc, caller, macros, counter, nAuto, x, ran, failed, after>>

\* The translation unit compiled: the program exists, and nothing of the
\* static assertions is left in it.
FinishBuild ==
    /\ pc = "tu"
    /\ pc' = "run"
    /\ counter' = 0
    /\ decls' = {}
    /\ last' = NoInvocation
    /\ nAuto' = 0
    /\ nInv' = 0
    /\ UNCHANGED <<defined, stdc, caller, macros, x, ran, failed, after>>

----------------------------------------------------------------------------
(* The program running.                                                     *)

\* Values the condition of an ASSERT takes at run time.
AssertConds == {-1, 0, 5}

\* line 29 with lines 78, 80: ASSERT_FAILED, macro-expanded where ASSERT is used
FailureAction ==
    IF macros["ASSERT_FAILED"] \in {"ASSERT_TRAP", "ASSERT_UNREACHABLE"}
    THEN macros[macros["ASSERT_FAILED"]]
    ELSE macros["ASSERT_FAILED"]

\* What executing a failure action can do. A trap instruction and abort() end
\* the process. The writes through a null pointer and the unreachable hints
\* are undefined behaviour: the process may fault, go on, or go on with its
\* state changed (the hints only: an optimizer may drop or rewrite the code
\* around them; a volatile store is always emitted).
Outcomes(action) ==
    CASE action \in {"__builtin_trap()", "__debugbreak()", "abort()"} -> {"halt"}
      [] action = "*(volatile int *)0 = 0" -> {"halt", "continue"}
      [] action = "((void)0)" -> {"continue"}
      [] action \in {"unreachable()", "__builtin_unreachable()", "__assume(0)",
                     "*(int*)0 = 0"} -> {"halt", "continue", "corrupt"}

\* line 29: ((condition) ? (void)0 : ASSERT_FAILED)
ASSERT ==
    /\ pc = "run"
    /\ \E c \in AssertConds :
         IF c # 0
         THEN /\ ran' = [result |-> "passed", action |-> "", outcome |-> ""]
              /\ UNCHANGED <<pc, x, failed>>
         ELSE \E o \in Outcomes(FailureAction) :
                /\ ran' = [result |-> "failed", action |-> FailureAction, outcome |-> o]
                /\ failed' = TRUE
                /\ pc' = IF o = "halt" THEN "halted" ELSE "run"
                /\ IF o = "corrupt" THEN x' \in 0..MaxSteps ELSE x' = x
    /\ UNCHANGED <<defined, stdc, caller, macros, counter, decls, last, nAuto, nInv, after>>

\* Any other step of the program.
Step ==
    /\ pc = "run"
    /\ x < MaxSteps
    /\ after < MaxSteps
    /\ x' = x + 1
    /\ after' = IF failed THEN after + 1 ELSE after
    /\ UNCHANGED <<defined, stdc, caller, macros, pc, counter, decls, last, nAuto, nInv, ran, failed>>

\* The build of a translation unit with static assertions.
Next ==
    \/ IncludeStaticAssertImpl
    \/ IncludeAssertTrap
    \/ IncludeAssertUnreachable
    \/ IncludeAssertFailed
    \/ StaticAssert
    \/ StaticAssertUniq
    \/ StaticAssertExpr
    \/ FinishBuild

Spec == Init /\ [][Next]_vars

\* Preprocessing the header alone.
NextHeader ==
    \/ IncludeStaticAssertImpl
    \/ IncludeAssertTrap
    \/ IncludeAssertUnreachable
    \/ IncludeAssertFailed

SpecHeader == InitHeader /\ [][NextHeader]_vars

\* The build and the run of a program that uses ASSERT.
NextRun ==
    \/ IncludeStaticAssertImpl
    \/ IncludeAssertTrap
    \/ IncludeAssertUnreachable
    \/ IncludeAssertFailed
    \/ FinishBuild
    \/ ASSERT
    \/ Step

SpecRun == InitRun /\ [][NextRun]_vars

----------------------------------------------------------------------------
(* Properties.                                                              *)

NativeForms == {"static_assert", "_Static_assert"}

\* The environment selects the fallback implementation of the static assertions.
FallbackEnv == StaticAssertTier(defined, stdc) = "fallback"

Invoked == last.macro # "none"

AssertionDiagnostics ==
    {"static assertion failed", "zero-width bit-field", "negative array size"}

\* C1: in every tier a static assertion is rejected as an assertion exactly
\* when its condition is zero, whatever non-zero value a true condition has:
\* the fallback bit-field has width 0 iff the condition is zero (and 1
\* otherwise), the fallback array has length -1 iff it is zero and 1
\* otherwise, and an invocation that neither redefines a struct nor stands
\* where its expansion is ungrammatical fails the build iff the condition is
\* zero.
C1_FailsExactlyWhenFalse ==
    Invoked =>
        LET v == Value(last.cond) IN
        /\ (last.diags \cap AssertionDiagnostics # {}) <=> (v = 0)
        /\ last.exp.form = "struct bit-field" =>
              last.exp.size = (IF v = 0 THEN 0 ELSE 1)
        /\ last.exp.form = "sizeof array" =>
              last.exp.size = (IF v = 0 THEN -1 ELSE 1)
        /\ last.diags \cap {"redefinition", "syntax error"} = {} =>
              ((pc = "failed") <=> (v = 0))

\* C1 witness: a fallback STATIC_ASSERT whose condition is -1 compiled.
C1_Witness ==
    /\ last.macro = "STATIC_ASSERT"
    /\ last.cond = "-1"
    /\ last.exp.form = "struct bit-field"
    /\ last.exp.size = 1
    /\ pc = "tu"

\* C3: STATIC_ASSERT_EXPR with a true condition expands, in every tier, to
\* a void expression that may stand as an operand of a larger expression.
C3_ExprIsVoidExpression ==
    (last.macro = "STATIC_ASSERT_EXPR" /\ Value(last.cond) # 0) =>
        /\ Category(last.exp.form) = "void expression"
        /\ "syntax error" \notin last.diags

\* C4: fallback tier with __COUNTER__, only STATIC_ASSERT invoked so far:
\* every invocation has consumed one counter value, the struct names are
\* pairwise distinct (as many names as structs declared, as many structs as
\* invocations that passed), and no invocation redefines a struct, so a
\* true condition never fails the build.
C4_CounterNamesDistinct ==
    (FallbackEnv /\ "__COUNTER__" \in defined /\ pc \in {"tu", "failed"}
     /\ nInv = nAuto) =>
        /\ counter = nAuto
        /\ Cardinality({d.tag : d \in decls}) = Cardinality(decls)
        /\ Cardinality(decls) = nAuto - (IF pc = "failed" THEN 1 ELSE 0)
        /\ "redefinition" \notin last.diags
        /\ (Invoked /\ Value(last.cond) # 0) => pc = "tu"

\* C4 witness: two STATIC_ASSERT on one line in one scope both compiled.
C4_Witness ==
    /\ FallbackEnv /\ "__COUNTER__" \in defined
    /\ pc = "tu" /\ nAuto = 2 /\ nInv = 2 /\ counter = 2
    /\ \E d, e \in decls :
          d # e /\ d.line = e.line /\ d.scope = e.scope /\ d.tag # e.tag

\* A static assertion is being compiled.
Compiling == pc = "tu" /\ nInv' = nInv + 1

\* C5: fallback tier without __COUNTER__. A STATIC_ASSERT on the line and in
\* the scope of an earlier STATIC_ASSERT gets its struct name and fails the
\* build with a redefinition, even with a true condition. A
\* STATIC_ASSERT_UNIQ with a true condition, in a scope that so far holds
\* only STATIC_ASSERT_UNIQ structs with other identifiers, gets a name none
\* of them has and compiles, also on the line of one of them.
C5_SameLineCollides ==
    [][ (Compiling /\ FallbackEnv /\ "__COUNTER__" \notin defined) =>
          /\ (last'.macro = "STATIC_ASSERT"
              /\ \E d \in decls : /\ d.macro = "STATIC_ASSERT"
                                  /\ d.line = last'.line
                                  /\ d.scope = last'.scope) =>
                (\E d \in decls : d.tag = last'.exp.tag)
                /\ "redefinition" \in last'.diags /\ pc' = "failed"
          /\ (last'.macro = "STATIC_ASSERT_UNIQ" /\ Value(last'.cond) # 0
              /\ \A d \in decls : d.scope = last'.scope =>
                    (d.macro = "STATIC_ASSERT_UNIQ" /\ d.id # last'.id)) =>
                (\A d \in decls : d.scope = last'.scope => d.tag # last'.exp.tag)
                /\ pc' = "tu" /\ Cardinality(decls') = Cardinality(decls) + 1
      ]_vars

\* C5 witness: the second of two STATIC_ASSERT with true conditions on one
\* line in one scope failed the build with a redefinition.
C5_Witness ==
    /\ FallbackEnv /\ "__COUNTER__" \notin defined
    /\ pc = "failed" /\ last.macro = "STATIC_ASSERT" /\ Value(last.cond) # 0
    /\ last.diags = {"redefinition"}
    /\ \E d \in decls : /\ d.macro = "STATIC_ASSERT" /\ d.line = last.line
                        /\ d.scope = last.scope /\ d.tag = last.exp.tag

\* The message the macros make up when the caller gives none.
DefaultMessage ==
    IF last.macro = "STATIC_ASSERT_UNIQ"
    THEN "\"" \o last.id \o ": " \o last.cond \o "\""
    ELSE "\"" \o last.cond \o "\""

\* C9: in the native tiers the native facility receives the caller's
\* condition as written and the caller's message as written, or, when none
\* is given, the stringified condition (after "<id>: " for
\* STATIC_ASSERT_UNIQ); in the fallback tier the expansion holds no message
\* and is the same with and without one.
C9_MessagePassedThrough ==
    Invoked =>
        /\ last.exp.cond = last.cond
        /\ last.exp.form \in NativeForms =>
              last.exp.msg = (IF last.given # "" THEN last.given ELSE DefaultMessage)
        /\ last.exp.form \notin NativeForms =>
              /\ last.exp.msg = ""
              /\ last.exp.tag = (IF last.exp.form = "struct bit-field"
                                 THEN "static_assertion_" \o last.id ELSE "")

\* C9 witness: a native STATIC_ASSERT_UNIQ without message was expanded.
C9_Witness ==
    /\ last.macro = "STATIC_ASSERT_UNIQ" /\ last.given = ""
    /\ last.exp.form \in NativeForms
    /\ last.exp.msg = "\"a: 2\""

\* The structs the last invocation's struct collides with.
Colliding == {d \in decls : d.scope = last.scope /\ d.tag = last.exp.tag}

\* C10 as claimed: fallback tier with __COUNTER__: a struct is redefined
\* only when two STATIC_ASSERT_UNIQ were given the same identifier.
C10_NoCollision ==
    (FallbackEnv /\ "__COUNTER__" \in defined /\ "redefinition" \in last.diags) =>
        \A d \in Colliding :
            /\ d.macro = "STATIC_ASSERT_UNIQ"
            /\ last.macro = "STATIC_ASSERT_UNIQ"
            /\ d.id = last.id

\* C10 as amended: a struct is redefined only when two STATIC_ASSERT_UNIQ
\* were given the same identifier, or when the identifier given to a
\* STATIC_ASSERT_UNIQ is the decimal spelling of a counter value that a
\* STATIC_ASSERT of the translation unit consumed.
C10_CollisionOnlyWithCounterNumeral ==
    (FallbackEnv /\ "__COUNTER__" \in defined /\ "redefinition" \in last.diags) =>
        \A d \in Colliding :
            \/ /\ d.macro = "STATIC_ASSERT_UNIQ"
               /\ last.macro = "STATIC_ASSERT_UNIQ"
               /\ d.id = last.id
            \/ /\ d.macro # last.macro
               /\ \E n \in 0..(counter - 1) :
                     (IF d.macro = "STATIC_ASSERT_UNIQ" THEN d.id ELSE last.id)
                        = Decimal(n)

\* C10 witness: STATIC_ASSERT_UNIQ(0, ...) redefined the struct of the
\* translation unit's first STATIC_ASSERT.
C10_Witness ==
    /\ FallbackEnv /\ "__COUNTER__" \in defined
    /\ last.macro = "STATIC_ASSERT_UNIQ" /\ last.id = "0"
    /\ "redefinition" \in last.diags
    /\ \E d \in Colliding : d.macro = "STATIC_ASSERT"

----------------------------------------------------------------------------
(* Properties of the header's resolution.                                   *)

\* First match of a priority list of <<predicate, strategy>> pairs;
\* "" when no predicate holds.
RECURSIVE FirstMatch(_)
FirstMatch(tiers) ==
    IF tiers = <<>> THEN ""
    ELSE IF tiers[1][1] THEN tiers[1][2]
    ELSE FirstMatch(Tail(tiers))

\* The number of tiers of a priority list whose strategy is the active one
\* and whose predicate holds with no earlier predicate holding.
Selected(tiers, active) ==
    Cardinality({i \in 1..Len(tiers) :
                    /\ tiers[i][2] = active
                    /\ tiers[i][1]
                    /\ \A j \in 1..(i - 1) : ~tiers[j][1]})

Has(m) == m \in defined

StaticAssertPriority ==
    << <<Has("__cpp_static_assert") \/ Has("static_assert") \/ stdc >= 202311,
         "static_assert">>,
       <<stdc >= 201112, "_Static_assert">>,
       <<TRUE, "struct bit-field">> >>

StaticAssertExprPriority ==
    << <<Has("__cpp_static_assert") \/ Has("static_assert") \/ stdc >= 202311,
         "static_assert">>,
       <<stdc >= 201112, "_Static_assert">>,
       <<TRUE, "sizeof array">> >>

UniquePriority ==
    << <<Has("__COUNTER__"), "__COUNTER__">>, <<TRUE, "__LINE__">> >>

TrapPriority ==
    << <<Has("__GNUC__"), "__builtin_trap()">>,
       <<Has("_MSC_VER"), "__debugbreak()">>,
       <<TRUE, "*(volatile int *)0 = 0">> >>

UnreachablePriority ==
    << <<Has("unreachable"), "unreachable()">>,
       <<Has("__GNUC__"), "__builtin_unreachable()">>,
       <<Has("_MSC_VER"), "__assume(0)">>,
       <<TRUE, "*(int*)0 = 0">> >>

FailedPriority ==
    << <<Has("ASSERT_DEBUG") \/ Has("DEBUG"), "ASSERT_TRAP">>,
       <<TRUE, "ASSERT_UNREACHABLE">> >>

NoCallerDefines == caller = [trap |-> "", unreachable |-> "", failed |-> ""]

\* The header has been read to its end.
Included == pc \notin {"L31", "L54", "L64", "L76"}

Resolved(m, tiers) ==
    /\ macros[m] = FirstMatch(tiers)
    /\ Selected(tiers, macros[m]) = 1

\* C8 as claimed: whatever the toolchain defines, once the header is read
\* (the caller having predefined none of its macros) each of the pipelines,
\* ASSERT__UNIQUE among them, has exactly one strategy, the first of its
\* priority list whose predicate holds.
C8_EveryPipelineResolved ==
    (Included /\ NoCallerDefines) =>
        /\ Resolved("STATIC_ASSERT__IMPL", StaticAssertPriority)
        /\ Resolved("STATIC_ASSERT_EXPR__IMPL", StaticAssertExprPriority)
        /\ Resolved("ASSERT__UNIQUE", UniquePriority)
        /\ Resolved("ASSERT_TRAP", TrapPriority)
        /\ Resolved("ASSERT_UNREACHABLE", UnreachablePriority)
        /\ Resolved("ASSERT_FAILED", FailedPriority)

\* C8 as amended: the same, except that ASSERT__UNIQUE is resolved (counter,
\* then line number) only when the fallback tier is selected; under
\* static_assert and _Static_assert the header leaves it undefined.
C8_PipelinesResolved ==
    (Included /\ NoCallerDefines) =>
        /\ Resolved("STATIC_ASSERT__IMPL", StaticAssertPriority)
        /\ Resolved("STATIC_ASSERT_EXPR__IMPL", StaticAssertExprPriority)
        /\ IF macros["STATIC_ASSERT__IMPL"] = "struct bit-field"
           THEN Resolved("ASSERT__UNIQUE", UniquePriority)
           ELSE macros["ASSERT__UNIQUE"] = ""
        /\ Resolved("ASSERT_TRAP", TrapPriority)
        /\ Resolved("ASSERT_UNREACHABLE", UnreachablePriority)
        /\ Resolved("ASSERT_FAILED", FailedPriority)

\* C8 witness: a C99 toolchain that defines both __GNUC__ and _MSC_VER, has
\* __COUNTER__ and no unreachable macro, in a diagnostics build.
C8_Witness ==
    /\ Included /\ NoCallerDefines
    /\ stdc = 199901
    /\ defined = {"__COUNTER__", "__GNUC__", "_MSC_VER", "DEBUG"}
    /\ macros["ASSERT_TRAP"] = "__builtin_trap()"
    /\ macros["ASSERT__UNIQUE"] = "__COUNTER__"

\* One of the native predicates of lines 31-35 holds.
NativePredicates ==
    Has("__cpp_static_assert") \/ Has("static_assert") \/ stdc >= 201112

\* What a caller can set before including the header: the diagnostics flags
\* and the three macros guarded by #ifndef.
DiagnosticsFlags == {"ASSERT_DEBUG", "DEBUG"}

\* C7 as claimed: where a native predicate holds, some setting of the
\* caller's switches makes the header select the fallback strategies.
C7_OverrideForcesFallback ==
    (pc # "L31" /\ NativePredicates) =>
        \E flags \in SUBSET DiagnosticsFlags, t \in CallerTrap,
           u \in CallerUnreachable, f \in CallerFailed :
            LET table == StaticAssertImplMacros(
                            CallerDefines(t, u, f),
                            (defined \ DiagnosticsFlags) \cup flags, stdc)
            IN  /\ table["STATIC_ASSERT__IMPL"] = "struct bit-field"
                /\ table["STATIC_ASSERT_EXPR__IMPL"] = "sizeof array"

\* C7 as amended: the header has no override of native-support detection:
\* where a native predicate holds, STATIC_ASSERT and STATIC_ASSERT_EXPR
\* resolve to static_assert or _Static_assert under every setting of the
\* caller's switches.
C7_NativeNotOverridable ==
    (pc # "L31" /\ NativePredicates) =>
        /\ macros["STATIC_ASSERT__IMPL"] \in NativeForms
        /\ macros["STATIC_ASSERT_EXPR__IMPL"] \in NativeForms
        /\ macros["ASSERT__UNIQUE"] = ""

\* C7 witness: a C11 build in which the caller predefined all three macros
\* and set a diagnostics flag resolved to _Static_assert.
C7_Witness ==
    /\ Included /\ stdc = 201112
    /\ caller = [trap |-> "abort()", unreachable |-> "((void)0)",
                 failed |-> "ASSERT_UNREACHABLE"]
    /\ Has("ASSERT_DEBUG")
    /\ macros["STATIC_ASSERT__IMPL"] = "_Static_assert"

----------------------------------------------------------------------------
(* Properties of ASSERT.                                                    *)

DiagnosticsEnabled == Has("ASSERT_DEBUG") \/ Has("DEBUG")

\* C2: in a diagnostics build (the caller having predefined none of the
\* header's macros), once an ASSERT whose condition is false has been
\* executed the process is halted and no program step has followed.
C2_HaltsAtFirstFailure ==
    (DiagnosticsEnabled /\ NoCallerDefines /\ failed) =>
        (pc = "halted" /\ after = 0)

\* An ASSERT whose condition is true changes nothing of the program.
PassingAssertHasNoEffect ==
    [][ (pc = "run" /\ ran'.result = "passed" /\ ran' # ran) =>
          (pc' = pc /\ x' = x /\ failed' = failed /\ after' = after) ]_vars

\* C6: a caller who predefines ASSERT_FAILED as ASSERT_TRAP gets the trap,
\* and a halt, at a false ASSERT without a diagnostics flag; one who
\* predefines it as ASSERT_UNREACHABLE gets the unreachable hint with a
\* diagnostics flag; a caller's ASSERT_TRAP or ASSERT_UNREACHABLE is the one
\* used, and leaves the choice between the two to the diagnostics flags.
C6_OverrideForcesBehaviour ==
    Included =>
        /\ (caller.failed = "ASSERT_TRAP" /\ ran.result = "failed") =>
              (ran.action = macros["ASSERT_TRAP"] /\ pc = "halted")
        /\ (caller.failed = "ASSERT_UNREACHABLE" /\ ran.result = "failed") =>
              ran.action = macros["ASSERT_UNREACHABLE"]
        /\ caller.trap # "" => macros["ASSERT_TRAP"] = caller.trap
        /\ caller.unreachable # "" =>
              macros["ASSERT_UNREACHABLE"] = caller.unreachable
        /\ caller.failed = "" =>
              macros["ASSERT_FAILED"] =
                 (IF DiagnosticsEnabled THEN "ASSERT_TRAP" ELSE "ASSERT_UNREACHABLE")

\* The part of C6 that is about which action a false ASSERT performs.
OverrideSelectsAction ==
    Included =>
        /\ (caller.failed = "ASSERT_TRAP" /\ ran.result = "failed") =>
              ran.action = macros["ASSERT_TRAP"]
        /\ (caller.failed = "ASSERT_UNREACHABLE" /\ ran.result = "failed") =>
              ran.action = macros["ASSERT_UNREACHABLE"]
        /\ caller.trap # "" => macros["ASSERT_TRAP"] = caller.trap
        /\ caller.unreachable # "" =>
              macros["ASSERT_UNREACHABLE"] = caller.unreachable
        /\ caller.failed = "" =>
              macros["ASSERT_FAILED"] =
                 (IF DiagnosticsEnabled THEN "ASSERT_TRAP" ELSE "ASSERT_UNREACHABLE")

=============================================================================
